---- MODULE Spec2Model ----
(***************************************************************************)
(* A model of the data layer of the GDV dashboard: DataSource.ts (Limit,   *)
(* StatLimits, DataSource.loadData, csvLoader, readCountryStats,           *)
(* readCountryInfoDB and the query methods) and of the consumer in the     *)
(* entry script that receives the loaded DataSource, and of the entry       *)
(* script's animation control with its repeating timer.                    *)
(*                                                                         *)
(* JavaScript strings are TLA+ strings, read character by character with   *)
(* Len and SubSeq, so that indexOf, substring, trim, parseInt and          *)
(* parseFloat are computed the way the runtime computes them.  JavaScript  *)
(* numbers are records                                                     *)
(* [k |-> "fin" | "nan" | "inf", v |-> Int]: a finite number is held in    *)
(* units of 10^-FracDigits, an infinity holds its sign in v.               *)
(***************************************************************************)
EXTENDS Integers, Sequences, FiniteSets, TLC

VARIABLES
    limit,          \* a Limit object: [min, max]
    passed,         \* the finite numbers handed to limit.expandRange so far
    lastArg,        \* the argument of the latest expandRange call
    fetch,          \* resource id -> "idle" | "pending" | "ok" | "failed"
    files,          \* csv resource id -> the rows parsed from the fetched text
    csv,            \* resource id -> the Map csvLoader built from it
    allState,       \* state of the Promise.all over the five csvLoader promises
    srcJson,        \* the country reference list once fetched
    nameDB,         \* readCountryInfoDB: nameDB, a Map name -> cca3
    infoFromCode,   \* readCountryInfoDB: info, a Map cca3 -> {code, name, region}
    recIdx,         \* readCountryInfoDB: position of the for-of loop over srcJson
    pcDB,           \* readCountryInfoDB: "idle" | "fetching" | "loop" | "done" | "failed"
    pc,             \* loadData: "idle" | "awaitCountries" | "awaitSources" | "join" | "returned" | "threw"
    dataSource,     \* the DataSource under construction: [data, dataLimits]
    rowIdx,         \* loadData: position of the for-of loop over data.get("gdp").keys()
    promise,        \* the promise loadData() returned: "none" | "pending" | "fulfilled" | "rejected"
    published,      \* what the then-callback received: <<>> or <<the DataSource>>
    errLogged,      \* the catch-callback ran
    anim,           \* the entry script's anim: <<>> for undefined or <<the interval handle>>
    intervals,      \* the handles of the repeating timers that are scheduled
    nextHandle,     \* the handle the next setInterval call returns
    nextYear,       \* ScatterPlot.nextYear
    displayedYear,  \* the year the scatter plot displays (plot.getDisplayedYear())
    buttonText,     \* textContent of the animation control
    lastClick       \* how the latest click on the control ended: "none" | "start" | "stop" | "threw"

vars == <<limit, passed, lastArg, fetch, files, csv, allState, srcJson, nameDB, infoFromCode,
          recIdx, pcDB, pc, dataSource, rowIdx, promise, published, errLogged,
          anim, intervals, nextHandle, nextYear, displayedYear, buttonText, lastClick>>

limitVars == <<limit, passed, lastArg>>
loadVars == <<fetch, files, csv, allState, srcJson, nameDB, infoFromCode, recIdx, pcDB, pc,
              dataSource, rowIdx, promise, published, errLogged>>
animVars == <<anim, intervals, nextHandle, nextYear, displayedYear, buttonText, lastClick>>

(***************************************************************************)
(* Strings                                                                 *)
(***************************************************************************)
WhiteSpace == {" ", "\t"}

Digits == <<"0", "1", "2", "3", "4", "5", "6", "7", "8", "9">>

IsDigit(c) == \E i \in 1..Len(Digits) : Digits[i] = c

DigitVal(c) == (CHOOSE i \in 1..Len(Digits) : Digits[i] = c) - 1

\* s.charAt(at), positions counted from 0
CharAt(s, at) == SubSeq(s, at + 1, at + 1)

\* s.startsWith(m, at), positions counted from 0
StartsWithAt(s, m, at) ==
    /\ at + Len(m) <= Len(s)
    /\ SubSeq(s, at + 1, at + Len(m)) = m

\* String.prototype.indexOf: the first position (from 0) where m occurs, or -1
IndexOf(s, m) ==
    LET hits == {p \in 0..Len(s) : StartsWithAt(s, m, p)}
    IN  IF hits = {} THEN -1 ELSE CHOOSE p \in hits : \A q \in hits : p <= q

\* String.prototype.substring(from, to), positions counted from 0, to exclusive
Substring(s, from, to) == SubSeq(s, from + 1, to)

\* String.prototype.substring(from)
SubstringFrom(s, from) == SubSeq(s, from + 1, Len(s))

RECURSIVE TrimStart(_)
TrimStart(s) ==
    IF Len(s) > 0 /\ CharAt(s, 0) \in WhiteSpace THEN TrimStart(SubstringFrom(s, 1)) ELSE s

RECURSIVE TrimEnd(_)
TrimEnd(s) ==
    IF Len(s) > 0 /\ CharAt(s, Len(s) - 1) \in WhiteSpace
    THEN TrimEnd(Substring(s, 0, Len(s) - 1)) ELSE s

\* String.prototype.trim
Trim(s) == TrimEnd(TrimStart(s))

(***************************************************************************)
(* Numbers                                                                 *)
(***************************************************************************)
FracDigits == 1

RECURSIVE Pow10(_)
Pow10(n) == IF n = 0 THEN 1 ELSE 10 * Pow10(n - 1)

Scale == Pow10(FracDigits)

Fin(v) == [k |-> "fin", v |-> v]
NaN == [k |-> "nan", v |-> 0]
PosInf == [k |-> "inf", v |-> 1]
NegInf == [k |-> "inf", v |-> -1]

\* Number.isFinite
IsFinite(n) == n.k = "fin"

\* a < b on numbers that are not NaN
NumLess(a, b) ==
    CASE a.k = "fin" /\ b.k = "fin" -> a.v < b.v
      [] a.k = "inf" /\ b.k = "inf" -> a.v < b.v
      [] a.k = "inf" -> a.v < 0
      [] OTHER -> b.v > 0

\* Math.min and Math.max of two numbers: NaN when either is NaN
MathMin(a, b) ==
    IF a.k = "nan" \/ b.k = "nan" THEN NaN ELSE IF NumLess(b, a) THEN b ELSE a

MathMax(a, b) ==
    IF a.k = "nan" \/ b.k = "nan" THEN NaN ELSE IF NumLess(a, b) THEN b ELSE a

(***************************************************************************)
(* class Limit                                                             *)
(***************************************************************************)
NewLimit == [min |-> PosInf, max |-> NegInf]

expandRangeMinOnly(l, newNumber) ==
    IF ~IsFinite(newNumber) THEN l
    ELSE [min |-> MathMin(newNumber, l.min), max |-> MathMin(newNumber, l.max)]

\* Limit.expandRange: the Limit after the call
\* (x \in {e} takes the value of e once)
expandRange(l, newNumber) ==
    CHOOSE after \in
        { IF ~IsFinite(n) THEN this
          ELSE [min |-> MathMin(n, this.min), max |-> MathMax(n, this.max)] :
            this \in {l}, n \in {newNumber} } : TRUE

\* a Limit nothing was passed to
LimitFresh ==
    /\ limit = NewLimit
    /\ passed = {}
    /\ lastArg = NaN

(***************************************************************************)
(* The resources loadData fetches                                          *)
(***************************************************************************)
CsvResources == <<"gdp", "ineq_comb", "ineq_edu", "ineq_inc", "ineq_life">>

CsvIds == {CsvResources[i] : i \in 1..Len(CsvResources)}

CountriesJson == "countries"

Resources == CsvIds \cup {CountriesJson}

\* nothing of loadData has run
LoadIdle ==
    /\ fetch = [r \in Resources |-> "idle"]
    /\ files = [r \in CsvIds |-> <<>>]
    /\ csv = [r \in CsvIds |-> <<>>]
    /\ allState = "none"
    /\ srcJson = <<>>
    /\ nameDB = <<>>
    /\ infoFromCode = <<>>
    /\ recIdx = 0
    /\ pcDB = "idle"
    /\ pc = "idle"
    /\ dataSource = <<>>
    /\ rowIdx = 0
    /\ promise = "none"
    /\ published = <<>>
    /\ errLogged = FALSE

(***************************************************************************)
(* Map: a JavaScript Map is the sequence of its entries [key, val] in      *)
(* insertion order                                                         *)
(***************************************************************************)
MapHas(m, k) == \E i \in 1..Len(m) : m[i].key = k

\* Map.prototype.get on a key the Map has
MapGet(m, k) == m[CHOOSE i \in 1..Len(m) : m[i].key = k].val

MapSetKeepFirst(m, k, v) ==
    IF MapHas(m, k) THEN m ELSE Append(m, [key |-> k, val |-> v])

\* Map.prototype.set: a present key keeps its place and takes the new value
\* (mm \in {m} takes the value of m once, where m is a nested call)
MapSet(m, k, v) ==
    CHOOSE after \in
        { IF MapHas(mm, k)
          THEN [i \in 1..Len(mm) |-> IF mm[i].key = k THEN [key |-> k, val |-> v] ELSE mm[i]]
          ELSE Append(mm, [key |-> k, val |-> v]) : mm \in {m} } : TRUE

\* Array.from(m.keys()) and Array.from(m.values())
MapKeys(m) == [i \in 1..Len(m) |-> m[i].key]
MapValues(m) == [i \in 1..Len(m) |-> m[i].val]

\* new Map(entries): the entries set one after the other
RECURSIVE MapFrom(_)
MapFrom(entries) ==
    IF entries = <<>> THEN <<>>
    ELSE LET n == Len(entries)
         IN  MapSet(MapFrom(SubSeq(entries, 1, n - 1)), entries[n].key, entries[n].val)

\* the elements of a sequence
Elems(q) == {q[i] : i \in 1..Len(q)}

(***************************************************************************)
(* DataSource.readCountryInfoDB                                            *)
(***************************************************************************)
forcedCountryNames ==
    << [key |-> "BRN", val |-> <<"Brunei Darussalam">>],
       [key |-> "PSE", val |-> <<"Palestine, State of">>],
       [key |-> "STP", val |-> <<"Sao Tome and Principe">>],
       [key |-> "MKD", val |-> <<"The former Yugoslav Republic of Macedonia">>],
       [key |-> "HKG", val |-> <<"Hong Kong, China (SAR)">>],
       [key |-> "COG", val |-> <<"Congo (Democratic Republic of the)">>],
       [key |-> "COD", val |-> <<"Congo">>] >>

\* the names of country.name.native, two per language, in for-in order
RECURSIVE NativeNames(_)
NativeNames(native) ==
    IF native = <<>> THEN <<>>
    ELSE <<Head(native).common, Head(native).official>> \o NativeNames(Tail(native))

OrderVariationBarePrefix(country) ==
    LET marker == " of "
        ofPos == IndexOf(country, marker)
        prefix == Trim(Substring(country, 0, ofPos))
        countryName == Trim(SubstringFrom(country, ofPos + Len(marker)))
    IN  countryName \o " (" \o prefix \o ")"

\* the template `${countryName} (${prefix})` of a name that contains " of "
OrderVariation(country) ==
    LET marker == " of "
        ofPos == IndexOf(country, marker)
        prefix == Trim(Substring(country, 0, ofPos + Len(marker)))
        countryName == Trim(SubstringFrom(country, ofPos + Len(marker)))
    IN  countryName \o " (" \o prefix \o ")"

\* orderVariations: one variant for each name of the list that contains " of "
RECURSIVE OrderVariations(_)
OrderVariations(names) ==
    IF names = <<>> THEN <<>>
    ELSE (IF IndexOf(Head(names), " of ") # -1 THEN <<OrderVariation(Head(names))>> ELSE <<>>)
         \o OrderVariations(Tail(names))

\* common, official and the native names: alternateNames before the variants
BaseNames(country) ==
    <<country.name.common, country.name.official>> \o NativeNames(country.name.native)

ForcedNames(country) ==
    IF MapHas(forcedCountryNames, country.cca3)
    THEN MapGet(forcedCountryNames, country.cca3) ELSE <<>>

\* alternateNames as it stands when the loop body reaches nameDB.set
AlternateNames(country) ==
    CHOOSE alternateNames \in
        { base \o OrderVariations(base) \o country.altSpellings \o ForcedNames(country) :
            base \in {BaseNames(country)} } : TRUE

\* names.forEach(name => db.set(name, code))
RECURSIVE SetAll(_, _, _)
SetAll(db, names, code) ==
    IF names = <<>> THEN db
    ELSE SetAll(MapSet(db, Head(names), code), Tail(names), code)

\* one turn of the loop over srcJson
AddCountry(db, country) ==
    CHOOSE after \in
        { SetAll(db, alternateNames, country.cca3) :
            alternateNames \in {AlternateNames(country)} } : TRUE

\* the Map info: cca3 -> {code, name, region}
InfoMap(list) ==
    MapFrom([i \in 1..Len(list) |->
        [key |-> list[i].cca3,
         val |-> [code |-> list[i].cca3, name |-> list[i].name.common,
                  region |-> list[i].region]]])

\* nameDB after the whole loop
RECURSIVE NameIndex(_)
NameIndex(list) ==
    IF list = <<>> THEN <<>>
    ELSE AddCountry(NameIndex(SubSeq(list, 1, Len(list) - 1)), list[Len(list)])

\* the part of readCountryInfoDB after its await: one loop turn
ReadCountryInfoStep ==
    /\ pcDB = "loop"
    /\ recIdx <= Len(srcJson)
    /\ nameDB' = AddCountry(nameDB, srcJson[recIdx])
    /\ recIdx' = recIdx + 1
    /\ UNCHANGED <<fetch, files, csv, allState, srcJson, infoFromCode, pcDB, pc, dataSource,
                   rowIdx, promise, published, errLogged, limitVars, animVars>>

\* the loop is over: info is built and the CountryInfoDatabase returned
ReadCountryInfoReturn ==
    /\ pcDB = "loop"
    /\ recIdx > Len(srcJson)
    /\ infoFromCode' = InfoMap(srcJson)
    /\ pcDB' = "done"
    /\ UNCHANGED <<fetch, files, csv, allState, srcJson, nameDB, recIdx, pc, dataSource,
                   rowIdx, promise, published, errLogged, limitVars, animVars>>

(***************************************************************************)
(* Country reference records (countries-unescaped.json)                    *)
(***************************************************************************)
Country(cca3, common, official, native, altSpellings, region) ==
    [cca3 |-> cca3, name |-> [common |-> common, official |-> official, native |-> native],
     altSpellings |-> altSpellings, region |-> region]

KOR == Country("KOR", "South Korea", "Republic of Korea",
               <<[common |-> "Hanguk", official |-> "Daehan Minguk"]>>,
               <<"KR", "Korea, Republic of", "Korea">>, "Asia")

PRK == Country("PRK", "North Korea", "Democratic People's Republic of Korea",
               <<[common |-> "Joseon", official |-> "Joseon Minjujuui Inmin Gonghwaguk"]>>,
               <<"KP", "Korea">>, "Asia")

COD == Country("COD", "DR Congo", "Democratic Republic of the Congo",
               <<[common |-> "RD Congo", official |-> "Republique democratique du Congo"]>>,
               <<"CD", "Congo-Kinshasa", "Congo, the Democratic Republic of the">>, "Africa")

COG == Country("COG", "Republic of the Congo", "Republic of the Congo",
               <<[common |-> "Republique du Congo", official |-> "Republique du Congo"]>>,
               <<"CG", "Congo", "Congo-Brazzaville">>, "Africa")

MMR == Country("MMR", "Myanmar", "Republic of the Union of Myanmar",
               <<>>, <<"MM", "Burma">>, "Asia")

CHL == Country("CHL", "Chile", "Republic of Chile",
               <<[common |-> "Chile", official |-> "Republica de Chile"]>>,
               <<"CL">>, "Americas")

BGR == Country("BGR", "Bulgaria", "Republic of Bulgaria", <<>>, <<"BG">>, "Europe")

(***************************************************************************)
(* parseInt and parseFloat, on the decimal strings the statistic files     *)
(* hold: white space, a sign, digits, a point, digits, then anything.      *)
(* No cell of the files below holds an exponent or a radix prefix, or more *)
(* than FracDigits digits after the point.                                 *)
(***************************************************************************)
RECURSIVE DigitPrefixLen(_)
DigitPrefixLen(s) ==
    IF Len(s) > 0 /\ IsDigit(CharAt(s, 0)) THEN 1 + DigitPrefixLen(SubstringFrom(s, 1)) ELSE 0

RECURSIVE DigitsValue(_)
DigitsValue(s) ==
    IF Len(s) = 0 THEN 0
    ELSE 10 * DigitsValue(Substring(s, 0, Len(s) - 1)) + DigitVal(CharAt(s, Len(s) - 1))

RECURSIVE Zeros(_)
Zeros(n) == IF n = 0 THEN "" ELSE "0" \o Zeros(n - 1)

\* the string after leading white space and a sign
Unsigned(str) ==
    LET t == TrimStart(str)
    IN  IF Len(t) > 0 /\ CharAt(t, 0) \in {"-", "+"} THEN SubstringFrom(t, 1) ELSE t

IsNegative(str) ==
    LET t == TrimStart(str) IN Len(t) > 0 /\ CharAt(t, 0) = "-"

\* the number a string of digits, a point and digits stands for
Magnitude(intDigits, fracDigits) ==
    DigitsValue(intDigits) * Scale
        + DigitsValue(Substring(fracDigits \o Zeros(FracDigits), 0, FracDigits))

\* parseInt(str): the leading integer, NaN when there is no digit
\* (x \in {e} takes the value of e once)
ParseInt(str) ==
    CHOOSE number \in
        { IF intLen = 0 THEN NaN
          ELSE Fin(IF IsNegative(str) THEN -Magnitude(Substring(body, 0, intLen), "")
                   ELSE Magnitude(Substring(body, 0, intLen), "")) :
            body \in {Unsigned(str)}, intLen \in {DigitPrefixLen(Unsigned(str))} } : TRUE

\* parseFloat(str): the leading decimal literal or Infinity, NaN when there is none
\* the digits that follow the point, "" when the string does not begin with one
FractionDigits(afterInt) ==
    IF Len(afterInt) > 0 /\ CharAt(afterInt, 0) = "."
    THEN Substring(afterInt, 1, 1 + DigitPrefixLen(SubstringFrom(afterInt, 1)))
    ELSE ""

ParseFloat(str) ==
    CHOOSE number \in
        { IF StartsWithAt(body, "Infinity", 0) THEN (IF IsNegative(str) THEN NegInf ELSE PosInf)
          ELSE IF intLen = 0 /\ Len(frac) = 0 THEN NaN
          ELSE Fin(IF IsNegative(str) THEN -Magnitude(Substring(body, 0, intLen), frac)
                   ELSE Magnitude(Substring(body, 0, intLen), frac)) :
            body \in {Unsigned(str)},
            intLen \in {DigitPrefixLen(Unsigned(str))},
            frac \in {FractionDigits(SubstringFrom(Unsigned(str),
                                                   DigitPrefixLen(Unsigned(str))))} } : TRUE

(***************************************************************************)
(* DataSource.csvLoader and DataSource.readCountryStats                    *)
(***************************************************************************)
years == <<"2010", "2011", "2012", "2013", "2014", "2015", "2016", "2017">>

\* a row of a statistic file as d3-dsv hands it over: row.Country and row[year]
Row(country, first, rest) ==
    [Country |-> country,
     cells |-> [y \in Elems(years) |-> IF y = years[1] THEN first ELSE rest]]

csvLoaderNoTrim(rows) ==
    MapFrom([i \in 1..Len(rows) |-> [key |-> rows[i].Country, val |-> rows[i]]])

\* csvLoader: new Map(rows.map(row => [row.Country.trim(), row]))
csvLoader(rows) ==
    MapFrom([i \in 1..Len(rows) |-> [key |-> Trim(rows[i].Country), val |-> rows[i]]])

\* new StatLimits(): one fresh Limit for each statistic
NewStatLimits == [r \in CsvIds |-> NewLimit]

\* null, as parseInt and parseFloat read it
Null == "null"

\* safeFetchData(resourceID, year): the string it returns
safeFetchData(data, countryName, resourceID, year) ==
    IF ~MapHas(data[resourceID], countryName)
    THEN Null
    ELSE MapGet(data[resourceID], countryName).cells[year]

\* safeFetchData(resourceID, year): limits[resourceID] after the call
safeFetchExpand(data, countryName, l, resourceID, year) ==
    IF ~MapHas(data[resourceID], countryName)
    THEN l
    ELSE expandRange(l, ParseFloat(MapGet(data[resourceID], countryName).cells[year]))

\* the object literal of one year
StatsOfYear(data, countryName, year) ==
    [gdp |-> ParseInt(safeFetchData(data, countryName, "gdp", year)),
     inequality |->
        [combined |-> ParseFloat(safeFetchData(data, countryName, "ineq_comb", year)),
         education |-> ParseFloat(safeFetchData(data, countryName, "ineq_edu", year)),
         life_expectancy |-> ParseFloat(safeFetchData(data, countryName, "ineq_inc", year)),
         income |-> ParseFloat(safeFetchData(data, countryName, "ineq_life", year))]]

\* limits[resourceID] after the loop over years has passed years[n]: every turn
\* calls safeFetchData once for each of the five resource ids
RECURSIVE LimitUpTo(_, _, _, _, _)
LimitUpTo(data, countryName, l, resourceID, n) ==
    IF n = 0 THEN l
    ELSE CHOOSE after \in
            { safeFetchExpand(data, countryName, before, resourceID, years[n]) :
                before \in {LimitUpTo(data, countryName, l, resourceID, n - 1)} } : TRUE

\* readCountryStats: the Map year -> CountryStats (the years are distinct, so
\* each set appends), and limits after the call
readCountryStats(data, countryName, limits) ==
    [countryStats |->
        [i \in 1..Len(years) |->
            [key |-> years[i], val |-> StatsOfYear(data, countryName, years[i])]],
     limits |->
        [r \in CsvIds |-> LimitUpTo(data, countryName, limits[r], r, Len(years))]]

(***************************************************************************)
(* DataSource.loadData after its awaits: the join, and the query methods   *)
(***************************************************************************)
\* the anchor names: data.get("gdp").keys()
AnchorKeys == MapKeys(csv["gdp"])

countryCSVName == Trim(AnchorKeys[rowIdx])

\* countries.nameToCode.get(countryCSVName), "undefined" when the Map has no such key
CodeOf(name) == IF MapHas(nameDB, name) THEN MapGet(nameDB, name) ELSE "undefined"

\* ok(countryInfo) passes: countries.infoFromCode.get(code) is an object
HasCountryInfo(name) == MapHas(infoFromCode, CodeOf(name))

\* one turn of the loop whose ok() passes: the country is set under its display name
JoinRow ==
    /\ pc = "join"
    /\ rowIdx <= Len(AnchorKeys)
    /\ HasCountryInfo(countryCSVName)
    /\ \E name \in {countryCSVName} :
       \E countryInfo \in {MapGet(infoFromCode, CodeOf(name))} :
       \E read \in {readCountryStats(csv, name, dataSource.dataLimits)} :
          dataSource' =
            [data |-> MapSet(dataSource.data, countryInfo.name,
                             [code |-> countryInfo.code, name |-> countryInfo.name,
                              region |-> countryInfo.region, stats |-> read.countryStats]),
             dataLimits |-> read.limits]
    /\ rowIdx' = rowIdx + 1
    /\ UNCHANGED <<fetch, files, csv, allState, srcJson, nameDB, infoFromCode, recIdx, pcDB,
                   pc, promise, published, errLogged, limitVars, animVars>>

JoinSkipRow ==
    /\ pc = "join"
    /\ rowIdx <= Len(AnchorKeys)
    /\ ~HasCountryInfo(countryCSVName)
    /\ rowIdx' = rowIdx + 1
    /\ UNCHANGED <<fetch, files, csv, allState, srcJson, nameDB, infoFromCode, recIdx, pcDB,
                   pc, dataSource, promise, published, errLogged, limitVars, animVars>>

\* one turn of the loop whose ok() throws: loadData's promise rejects
JoinThrow ==
    /\ pc = "join"
    /\ rowIdx <= Len(AnchorKeys)
    /\ ~HasCountryInfo(countryCSVName)
    /\ pc' = "threw"
    /\ promise' = "rejected"
    /\ UNCHANGED <<fetch, files, csv, allState, srcJson, nameDB, infoFromCode, recIdx, pcDB,
                   dataSource, rowIdx, published, errLogged, limitVars, animVars>>

JoinReturnEarly ==
    /\ pc = "join"
    /\ pc' = "returned"
    /\ promise' = "fulfilled"
    /\ UNCHANGED <<fetch, files, csv, allState, srcJson, nameDB, infoFromCode, recIdx, pcDB,
                   dataSource, rowIdx, published, errLogged, limitVars, animVars>>

\* the loop is over: return dataSource fulfils loadData's promise
JoinReturn ==
    /\ pc = "join"
    /\ rowIdx > Len(AnchorKeys)
    /\ pc' = "returned"
    /\ promise' = "fulfilled"
    /\ UNCHANGED <<fetch, files, csv, allState, srcJson, nameDB, infoFromCode, recIdx, pcDB,
                   dataSource, rowIdx, published, errLogged, limitVars, animVars>>

\* synchronous code of the load is on the stack: no callback can run
Busy == pcDB = "loop" \/ pc = "join"

\* DataSource.loadData().then(data => ...): the consumer receives the DataSource
ThenCallback ==
    /\ ~Busy
    /\ promise = "fulfilled"
    /\ published = <<>>
    /\ published' = <<dataSource>>
    /\ UNCHANGED <<fetch, files, csv, allState, srcJson, nameDB, infoFromCode, recIdx, pcDB,
                   pc, dataSource, rowIdx, promise, errLogged, limitVars, animVars>>

\* .catch(err => console.error(err))
CatchCallback ==
    /\ ~Busy
    /\ promise = "rejected"
    /\ ~errLogged
    /\ errLogged' = TRUE
    /\ UNCHANGED <<fetch, files, csv, allState, srcJson, nameDB, infoFromCode, recIdx, pcDB,
                   pc, dataSource, rowIdx, promise, published, limitVars, animVars>>

\* getCountry(name): <<>> for undefined
getCountry(ds, name) == IF MapHas(ds.data, name) THEN <<MapGet(ds.data, name)>> ELSE <<>>

\* getCountries(): Array.from(this.data.values())
getCountries(ds) == MapValues(ds.data)

\* getStatLimits()
getStatLimits(ds) == ds.dataLimits

(***************************************************************************)
(* DataSource.loadData up to the join: the six fetches and the two awaits  *)
(***************************************************************************)
\* what a fetch can deliver
LoadFiles ==
    [r \in CsvIds |->
        CASE r = "gdp" ->
                { <<Row("Chile", "1234", "1300"), Row("Bulgaria", "800", "..")>>,
                  <<Row("Chile", "1234", "1300"), Row("Republicland", "5", "5")>> }
          [] r = "ineq_comb" -> { <<Row("Chile", "12.5", "13.0")>> }
          [] OTHER -> { <<>> }]

LoadRefLists == { <<BGR, CHL>> }

\* loadData() up to its first await: the five csvLoader calls run up to their
\* await text(source), Promise.all takes their promises, readCountryInfoDB runs
\* up to its await json(...)
LoadDataCall ==
    /\ pc = "idle"
    /\ fetch' = [r \in Resources |-> "pending"]
    /\ allState' = "pending"
    /\ pcDB' = "fetching"
    /\ pc' = "awaitCountries"
    /\ promise' = "pending"
    /\ UNCHANGED <<files, csv, srcJson, nameDB, infoFromCode, recIdx, dataSource, rowIdx,
                   published, errLogged, limitVars, animVars>>

\* text(source) fulfils: csvLoader builds its Map and fulfils its promise, and
\* Promise.all fulfils with the last of the five
CsvFetchOk(r) ==
    /\ ~Busy
    /\ fetch[r] = "pending"
    /\ \E rows \in LoadFiles[r] :
        /\ files' = [files EXCEPT ![r] = rows]
        /\ csv' = [csv EXCEPT ![r] = csvLoader(rows)]
    /\ fetch' = [fetch EXCEPT ![r] = "ok"]
    /\ allState' = IF allState = "pending" /\ \A q \in CsvIds \ {r} : fetch[q] = "ok"
                   THEN "fulfilled" ELSE allState
    /\ UNCHANGED <<srcJson, nameDB, infoFromCode, recIdx, pcDB, pc, dataSource, rowIdx,
                   promise, published, errLogged, limitVars, animVars>>

\* text(source) rejects: csvLoader rejects, and Promise.all with the first that does
CsvFetchFail(r) ==
    /\ ~Busy
    /\ fetch[r] = "pending"
    /\ fetch' = [fetch EXCEPT ![r] = "failed"]
    /\ allState' = IF allState = "pending" THEN "rejected" ELSE allState
    /\ UNCHANGED <<files, csv, srcJson, nameDB, infoFromCode, recIdx, pcDB, pc, dataSource,
                   rowIdx, promise, published, errLogged, limitVars, animVars>>

\* json(...) fulfils: readCountryInfoDB goes on into its loop
JsonFetchOk ==
    /\ ~Busy
    /\ fetch[CountriesJson] = "pending"
    /\ fetch' = [fetch EXCEPT ![CountriesJson] = "ok"]
    /\ srcJson' \in LoadRefLists
    /\ nameDB' = <<>>
    /\ recIdx' = 1
    /\ pcDB' = "loop"
    /\ UNCHANGED <<files, csv, allState, infoFromCode, pc, dataSource, rowIdx, promise,
                   published, errLogged, limitVars, animVars>>

\* json(...) rejects: readCountryInfoDB rejects
JsonFetchFail ==
    /\ ~Busy
    /\ fetch[CountriesJson] = "pending"
    /\ fetch' = [fetch EXCEPT ![CountriesJson] = "failed"]
    /\ pcDB' = "failed"
    /\ UNCHANGED <<files, csv, allState, srcJson, nameDB, infoFromCode, recIdx, pc,
                   dataSource, rowIdx, promise, published, errLogged, limitVars, animVars>>

\* await DataSource.readCountryInfoDB() resumes with the database
AwaitCountriesResume ==
    /\ ~Busy
    /\ pc = "awaitCountries"
    /\ pcDB = "done"
    /\ pc' = "awaitSources"
    /\ UNCHANGED <<fetch, files, csv, allState, srcJson, nameDB, infoFromCode, recIdx, pcDB,
                   dataSource, rowIdx, promise, published, errLogged, limitVars, animVars>>

\* await DataSource.readCountryInfoDB() throws: loadData rejects
AwaitCountriesThrow ==
    /\ ~Busy
    /\ pc = "awaitCountries"
    /\ pcDB = "failed"
    /\ pc' = "threw"
    /\ promise' = "rejected"
    /\ UNCHANGED <<fetch, files, csv, allState, srcJson, nameDB, infoFromCode, recIdx, pcDB,
                   dataSource, rowIdx, published, errLogged, limitVars, animVars>>

\* await dataSrcLoaders resumes: new DataSource(), and the loop begins
AwaitSourcesResume ==
    /\ ~Busy
    /\ pc = "awaitSources"
    /\ allState = "fulfilled"
    /\ pc' = "join"
    /\ dataSource' = [data |-> <<>>, dataLimits |-> NewStatLimits]
    /\ rowIdx' = 1
    /\ UNCHANGED <<fetch, files, csv, allState, srcJson, nameDB, infoFromCode, recIdx, pcDB,
                   promise, published, errLogged, limitVars, animVars>>

AwaitSourcesIgnoreFailure ==
    /\ ~Busy
    /\ pc = "awaitSources"
    /\ allState = "rejected"
    /\ \A r \in CsvIds : fetch[r] # "pending"
    /\ pc' = "join"
    /\ dataSource' = [data |-> <<>>, dataLimits |-> NewStatLimits]
    /\ rowIdx' = 1
    /\ UNCHANGED <<fetch, files, csv, allState, srcJson, nameDB, infoFromCode, recIdx, pcDB,
                   promise, published, errLogged, limitVars, animVars>>

\* await dataSrcLoaders throws: loadData rejects
AwaitSourcesThrow ==
    /\ ~Busy
    /\ pc = "awaitSources"
    /\ allState = "rejected"
    /\ pc' = "threw"
    /\ promise' = "rejected"
    /\ UNCHANGED <<fetch, files, csv, allState, srcJson, nameDB, infoFromCode, recIdx, pcDB,
                   dataSource, rowIdx, published, errLogged, limitVars, animVars>>

\* setInterval calls the model follows
MaxHandles == 2

(***************************************************************************)
(* The animation control of the entry script and the scatter plot's year   *)
(***************************************************************************)
\* nothing has been clicked: anim is undefined, no timer is scheduled, and the
\* scatter plot, once constructed, starts at years[0]
AnimIdle ==
    /\ anim = <<>>
    /\ intervals = {}
    /\ nextHandle = 1
    /\ nextYear = years[1]
    /\ displayedYear = years[1]
    /\ buttonText = "Start Animation"
    /\ lastClick = "none"

\* years.indexOf(year): 0-based, -1 when absent
YearIndexOf(year) ==
    IF \E i \in 1..Len(years) : years[i] = year
    THEN (CHOOSE i \in 1..Len(years) : years[i] = year) - 1
    ELSE -1

\* years[index] of a 0-based index
YearAt(index) == years[index + 1]

\* plot is assigned in the then-callback only
PlotDefined == published # <<>>

\* plot.getDisplayedYear()
getDisplayedYear == displayedYear

\* plot.animateScatterPlot(year): nextYear after the call
animateScatterPlot(year) == YearAt((YearIndexOf(year) + 1) % Len(years))

\* the closure animation() of the click handler, with plot defined
Animation ==
    \E year \in {YearAt((YearIndexOf(getDisplayedYear) + 1) % Len(years))} :
        /\ displayedYear' = year
        /\ nextYear' = animateScatterPlot(year)

ClickAnimationControlNoClear ==
    /\ ~Busy
    /\ anim # <<>> \/ nextHandle <= MaxHandles
    /\ IF anim # <<>>
       THEN /\ anim' = <<>>
            /\ buttonText' = "Start Animation"
            /\ lastClick' = "stop"
            /\ UNCHANGED <<intervals, nextHandle, nextYear, displayedYear>>
       ELSE IF ~PlotDefined
       THEN /\ lastClick' = "threw"
            /\ UNCHANGED <<anim, intervals, nextHandle, nextYear, displayedYear, buttonText>>
       ELSE /\ Animation
            /\ intervals' = intervals \cup {nextHandle}
            /\ anim' = <<nextHandle>>
            /\ nextHandle' = nextHandle + 1
            /\ buttonText' = "Stop Animation"
            /\ lastClick' = "start"
    /\ UNCHANGED <<loadVars, limitVars>>

\* a click on #animation-control: the whole handler.  With anim defined it
\* clears the interval and forgets the handle; otherwise it calls animation(),
\* which throws a TypeError while plot is undefined and ends the handler
\* there, and then schedules the interval and keeps its handle
ClickAnimationControl ==
    /\ ~Busy
    /\ anim # <<>> \/ nextHandle <= MaxHandles
    /\ IF anim # <<>>
       THEN /\ intervals' = intervals \ {anim[1]}
            /\ anim' = <<>>
            /\ buttonText' = "Start Animation"
            /\ lastClick' = "stop"
            /\ UNCHANGED <<nextHandle, nextYear, displayedYear>>
       ELSE IF ~PlotDefined
       THEN /\ lastClick' = "threw"
            /\ UNCHANGED <<anim, intervals, nextHandle, nextYear, displayedYear, buttonText>>
       ELSE /\ Animation
            /\ intervals' = intervals \cup {nextHandle}
            /\ anim' = <<nextHandle>>
            /\ nextHandle' = nextHandle + 1
            /\ buttonText' = "Stop Animation"
            /\ lastClick' = "start"
    /\ UNCHANGED <<loadVars, limitVars>>

\* a scheduled interval fires: animation() runs
TimerTick ==
    /\ ~Busy
    /\ intervals # {}
    /\ IF PlotDefined THEN Animation ELSE UNCHANGED <<nextYear, displayedYear>>
    /\ UNCHANGED <<anim, intervals, nextHandle, buttonText, lastClick, loadVars, limitVars>>

(***************************************************************************)
(* SpecIndex: readCountryInfoDB on every reference list of up to           *)
(* MaxRecords distinct records of RecordPool, in every order               *)
(***************************************************************************)
MaxRecords == 3

RecordPool == {KOR, PRK, COD, COG, MMR}

RefLists ==
    {l \in UNION {[1..n -> RecordPool] : n \in 1..MaxRecords} :
        \A i, j \in 1..Len(l) : i # j => l[i] # l[j]}

InitIndex ==
    /\ LimitFresh
    /\ AnimIdle
    /\ fetch = [r \in Resources |-> IF r = CountriesJson THEN "ok" ELSE "pending"]
    /\ files = [r \in CsvIds |-> <<>>]
    /\ csv = [r \in CsvIds |-> <<>>]
    /\ allState = "pending"
    /\ srcJson \in RefLists
    /\ nameDB = <<>>
    /\ infoFromCode = <<>>
    /\ recIdx = 1
    /\ pcDB = "loop"
    /\ pc = "awaitCountries"
    /\ dataSource = <<>>
    /\ rowIdx = 0
    /\ promise = "pending"
    /\ published = <<>>
    /\ errLogged = FALSE

NextIndex == ReadCountryInfoStep \/ ReadCountryInfoReturn

SpecIndex == InitIndex /\ [][NextIndex]_vars

(***************************************************************************)
(* SpecJoin: the join of loadData, from the moment all six fetches have    *)
(* completed, on every gdp file of up to MaxRows rows of GdpRowPool and    *)
(* every choice of the four inequality files among IneqFilePool (the       *)
(* education file is never the empty one)                                  *)
(***************************************************************************)
MaxRows == 2

JoinRefList == <<BGR, CHL, KOR, MMR>>

GdpRowPool ==
    { Row("Chile", "1234", "1300"),
      Row("Chile", "7", "8"),
      Row(" Bulgaria ", "800.7", ".."),
      Row("South Korea", "3000", "2900"),
      Row("Korea (Republic of)", "3100", ""),
      Row("Republicland", "5", "5") }

\* no row twice; two rows may name the same country
GdpFiles ==
    {g \in UNION {[1..n -> GdpRowPool] : n \in 1..MaxRows} :
        \A i, j \in 1..Len(g) : i # j => g[i] # g[j]}

IneqFilePool ==
    { <<>>,
      <<Row("Chile", "12.5", "13.0")>>,
      <<Row("Chile ", "30.5", "2"), Row("Korea (Republic of)", "20.1", "19"),
        Row("Myanmar", "9.9", "41.0")>> }

InitJoin ==
    /\ LimitFresh
    /\ AnimIdle
    /\ fetch = [r \in Resources |-> "ok"]
    /\ \E g \in GdpFiles : \E q \in [CsvIds \ {"gdp"} -> IneqFilePool] :
          /\ q["ineq_edu"] # <<>>
          /\ files = [r \in CsvIds |-> IF r = "gdp" THEN g ELSE q[r]]
    /\ csv = [r \in CsvIds |-> csvLoader(files[r])]
    /\ allState = "fulfilled"
    /\ srcJson = JoinRefList
    /\ nameDB = NameIndex(srcJson)
    /\ infoFromCode = InfoMap(srcJson)
    /\ recIdx = Len(srcJson) + 1
    /\ pcDB = "done"
    /\ pc = "join"
    /\ dataSource = [data |-> <<>>, dataLimits |-> NewStatLimits]
    /\ rowIdx = 1
    /\ promise = "pending"
    /\ published = <<>>
    /\ errLogged = FALSE

NextJoin == JoinRow \/ JoinThrow \/ JoinReturn \/ ThenCallback \/ CatchCallback

SpecJoin == InitJoin /\ [][NextJoin]_vars

(***************************************************************************)
(* SpecLoad: loadData from its call to the callbacks, the six fetches      *)
(* settling in every order and with every outcome.  Every pending fetch    *)
(* settles and every ready continuation runs.                              *)
(***************************************************************************)
InitLoad == LimitFresh /\ LoadIdle /\ AnimIdle

NextLoad ==
    \/ LoadDataCall
    \/ \E r \in CsvIds : CsvFetchOk(r)
    \/ \E r \in CsvIds : CsvFetchFail(r)
    \/ JsonFetchOk
    \/ JsonFetchFail
    \/ ReadCountryInfoStep
    \/ ReadCountryInfoReturn
    \/ AwaitCountriesResume
    \/ AwaitCountriesThrow
    \/ AwaitSourcesResume
    \/ AwaitSourcesThrow
    \/ JoinRow
    \/ JoinThrow
    \/ JoinReturn
    \/ ThenCallback
    \/ CatchCallback

SpecLoad == InitLoad /\ [][NextLoad]_vars /\ WF_vars(NextLoad)

(***************************************************************************)
(* SpecAnim: the load of SpecLoad with clicks on the animation control and *)
(* timer ticks at every point where no synchronous code is running         *)
(***************************************************************************)
InitAnim == InitLoad

NextAnim ==
    \/ LoadDataCall
    \/ \E r \in CsvIds : CsvFetchOk(r)
    \/ \E r \in CsvIds : CsvFetchFail(r)
    \/ JsonFetchOk
    \/ JsonFetchFail
    \/ ReadCountryInfoStep
    \/ ReadCountryInfoReturn
    \/ AwaitCountriesResume
    \/ AwaitCountriesThrow
    \/ AwaitSourcesResume
    \/ AwaitSourcesThrow
    \/ JoinRow
    \/ JoinThrow
    \/ JoinReturn
    \/ ThenCallback
    \/ CatchCallback
    \/ ClickAnimationControl
    \/ TimerTick

SpecAnim == InitAnim /\ [][NextAnim]_vars

(***************************************************************************)
(* SpecLimit: one Limit and every sequence of expandRange calls on it      *)
(***************************************************************************)
FiniteArgs == {Fin(-20), Fin(10), Fin(25), Fin(30), Fin(40), Fin(50), Fin(90)}

LimitArgs == FiniteArgs \cup {NaN, PosInf, NegInf}

InitLimit == LimitFresh /\ LoadIdle /\ AnimIdle

CallExpandRange ==
    \E v \in LimitArgs :
        /\ limit' = expandRange(limit, v)
        /\ passed' = IF IsFinite(v) THEN passed \cup {v} ELSE passed
        /\ lastArg' = v
        /\ UNCHANGED <<loadVars, animVars>>

NextLimit == CallExpandRange

SpecLimit == InitLimit /\ [][NextLimit]_vars

\* the least and the greatest of a non-empty set of finite numbers
LeastOf(S) == CHOOSE a \in S : \A b \in S : a.v <= b.v
GreatestOf(S) == CHOOSE a \in S : \A b \in S : a.v >= b.v

LimitMatchesPassed ==
    limit = IF passed = {} THEN [min |-> PosInf, max |-> NegInf]
            ELSE [min |-> LeastOf(passed), max |-> GreatestOf(passed)]

LimitStepMonotone ==
    /\ ~IsFinite(lastArg') => limit' = limit
    /\ ~NumLess(limit.min, limit'.min)
    /\ ~NumLess(limit'.max, limit.max)

\* C7: after any sequence of expandRange calls on a fresh Limit, min and max are
\* the minimum and maximum of the finite values passed so far, and stay
\* (+infinity, -infinity) while none was passed; a call with a non-finite
\* argument changes nothing, min never increases and max never decreases.
C7_LimitTracksFiniteRange == [](LimitMatchesPassed) /\ [][LimitStepMonotone]_vars

\* the spec's example 3, 1, 4, 1, 5, NaN, 9 has been passed: the range is 1..9,
\* and a non-finite argument has been passed along the way
C7_Witness ==
    /\ passed = {Fin(10), Fin(30), Fin(40), Fin(50), Fin(90)}
    /\ lastArg = NaN
    /\ limit = [min |-> Fin(10), max |-> Fin(90)]

(***************************************************************************)
(* The name index (SpecIndex)                                              *)
(***************************************************************************)
\* the names of a record that are not forced: common, official, native,
\* order-inverted and alternate spellings
DerivedNames(country) ==
    Elems(BaseNames(country)) \cup Elems(OrderVariations(BaseNames(country)))
        \cup Elems(country.altSpellings)

\* the code of the last record of the list that collects the name
LastCollector(list, n) ==
    list[CHOOSE j \in 1..Len(list) :
            /\ n \in Elems(AlternateNames(list[j]))
            /\ \A k \in (j + 1)..Len(list) : n \notin Elems(AlternateNames(list[k]))].cca3

\* C4: a forced name of country A that is also a derived name of another
\* country B resolves to A's code once readCountryInfoDB has completed,
\* whatever the order of the records.
C4_ForcedNameWins ==
    pcDB = "done" =>
        \A i, j \in 1..Len(srcJson) :
            i # j =>
                \A n \in Elems(ForcedNames(srcJson[i])) :
                    n \in DerivedNames(srcJson[j]) =>
                        MapHas(nameDB, n) /\ MapGet(nameDB, n) = srcJson[i].cca3

\* C5 as claimed: every name collected for a record resolves to that record's
\* own code in the finished index.
C5_EveryNameResolvesToOwnCode ==
    pcDB = "done" =>
        \A i \in 1..Len(srcJson) :
            \A n \in Elems(AlternateNames(srcJson[i])) :
                MapHas(nameDB, n) /\ MapGet(nameDB, n) = srcJson[i].cca3

\* C5: every name collected for a record of the reference list is in the
\* finished index and resolves to the code of the last record of the list that
\* collects it: to the record's own code unless a later record collects the
\* same name.
C5_EveryNameResolvesToLastCollector ==
    pcDB = "done" =>
        \A i \in 1..Len(srcJson) :
            \A n \in Elems(AlternateNames(srcJson[i])) :
                /\ MapHas(nameDB, n)
                /\ MapGet(nameDB, n) = LastCollector(srcJson, n)
                /\ (\A k \in (i + 1)..Len(srcJson) :
                        n \notin Elems(AlternateNames(srcJson[k])))
                    => MapGet(nameDB, n) = srcJson[i].cca3

\* two records collect "Korea"; the index is finished and holds the later one's code
C5_Witness ==
    /\ pcDB = "done"
    /\ \E i, j \in 1..Len(srcJson) :
        /\ i < j
        /\ "Korea" \in Elems(AlternateNames(srcJson[i]))
        /\ "Korea" \in Elems(AlternateNames(srcJson[j]))
        /\ MapGet(nameDB, "Korea") = srcJson[j].cca3
        /\ MapGet(nameDB, srcJson[i].name.common) = srcJson[i].cca3

\* the candidate names the claim inverts: common, official, native, alternate spellings
CandidateNames(country) == Elems(BaseNames(country)) \cup Elems(country.altSpellings)

\* "<Prefix> of <Suffix>" split at the first " of "
PrefixOf(n) == Substring(n, 0, IndexOf(n, " of "))
SuffixOf(n) == SubstringFrom(n, IndexOf(n, " of ") + Len(" of "))

\* C6 as claimed: every candidate name "<Prefix> of <Suffix>" of a country puts
\* "<Suffix> (<Prefix>)" into the index, mapped to that country's code.
C6_VariantWithBarePrefix ==
    pcDB = "done" =>
        \A i \in 1..Len(srcJson) :
            \A n \in CandidateNames(srcJson[i]) :
                IndexOf(n, " of ") # -1 =>
                    LET variant == SuffixOf(n) \o " (" \o PrefixOf(n) \o ")"
                    IN  MapHas(nameDB, variant) /\ MapGet(nameDB, variant) = srcJson[i].cca3

\* C6: every common, official or native name "<Prefix> of <Suffix>" of a country
\* (split at the first " of ", both parts trimmed) puts "<Suffix> (<Prefix> of)"
\* into the index, mapped to the code of the last record that collects that
\* name; "Republic of Korea" yields "Korea (Republic of)".
C6_VariantKeepsOf ==
    pcDB = "done" =>
        \A i \in 1..Len(srcJson) :
            /\ \A n \in Elems(BaseNames(srcJson[i])) :
                IndexOf(n, " of ") # -1 =>
                    LET variant == Trim(SuffixOf(n)) \o " (" \o Trim(PrefixOf(n) \o " of") \o ")"
                    IN  /\ MapHas(nameDB, variant)
                        /\ MapGet(nameDB, variant) = LastCollector(srcJson, variant)
            /\ srcJson[i].name.official = "Republic of Korea" =>
                /\ MapHas(nameDB, "Korea (Republic of)")
                /\ MapGet(nameDB, "Korea (Republic of)") = srcJson[i].cca3

\* the index is finished for a list that holds "Republic of Korea" and a name with
\* two " of ": it holds both variants, split at the first " of "
C6_Witness ==
    /\ pcDB = "done"
    /\ KOR \in Elems(srcJson)
    /\ MMR \in Elems(srcJson)
    /\ MapHas(nameDB, "Korea (Republic of)")
    /\ MapGet(nameDB, "Korea (Republic of)") = "KOR"
    /\ MapHas(nameDB, "the Union of Myanmar (Republic of)")
    /\ ~MapHas(nameDB, "Korea (Republic)")

(***************************************************************************)
(* The join (SpecJoin)                                                     *)
(***************************************************************************)
\* the trimmed country names of the rows of the gdp file, in row order
AnchorRowNames == [i \in 1..Len(files["gdp"]) |-> Trim(files["gdp"][i].Country)]

UnresolvedAnchorRow ==
    \E i \in 1..Len(AnchorRowNames) : ~MapHas(nameDB, AnchorRowNames[i])

\* C1: when a row of the gdp source has a trimmed name the name index does not
\* hold, loadData never fulfils its promise and rejects it once the join has
\* ended, nothing reaches the then-callback, and the loop never steps over such
\* a row.
C1_UnresolvedNameFailsLoad ==
    UnresolvedAnchorRow =>
        /\ promise # "fulfilled"
        /\ published = <<>>
        /\ pc # "join" => promise = "rejected"
        /\ \A i \in 1..(rowIdx - 1) : MapHas(nameDB, AnchorKeys[i])

\* the join threw on an unresolved name after it had joined a row; the
\* catch-callback ran and the then-callback did not
C1_Witness ==
    /\ UnresolvedAnchorRow
    /\ pc = "threw"
    /\ promise = "rejected"
    /\ errLogged
    /\ dataSource.data # <<>>
    /\ published = <<>>

\* [min, max] of a set of finite numbers, the fresh Limit for the empty set
RangeOf(S) == IF S = {} THEN NewLimit ELSE [min |-> LeastOf(S), max |-> GreatestOf(S)]

\* the finite values of one field over all countries and years of a DataSource
StoredGdp(ds) ==
    {v \in {getCountries(ds)[i].stats[j].val.gdp :
                i \in 1..Len(getCountries(ds)), j \in 1..Len(years)} : IsFinite(v)}

StoredCombined(ds) ==
    {v \in {getCountries(ds)[i].stats[j].val.inequality.combined :
                i \in 1..Len(getCountries(ds)), j \in 1..Len(years)} : IsFinite(v)}

\* C8: after a successful load getStatLimits().gdp is the range of the finite
\* gdp values stored in the countries of getCountries(), and
\* getStatLimits().ineq_comb the range of the finite inequality.combined
\* values stored there.
C8_LimitsMatchStoredValues ==
    published # <<>> =>
        /\ getStatLimits(published[1])["gdp"] = RangeOf(StoredGdp(published[1]))
        /\ getStatLimits(published[1])["ineq_comb"] = RangeOf(StoredCombined(published[1]))

\* the field of CountryStats that belongs to a statistic
FieldOf(resourceID, st) ==
    CASE resourceID = "gdp" -> st.gdp
      [] resourceID = "ineq_comb" -> st.inequality.combined
      [] resourceID = "ineq_edu" -> st.inequality.education
      [] resourceID = "ineq_inc" -> st.inequality.income
      [] resourceID = "ineq_life" -> st.inequality.life_expectancy

\* the statistic source has no row whose name resolves to the country
NoRowFor(resourceID, country) ==
    \A k \in Elems(MapKeys(csv[resourceID])) : CodeOf(k) # country.code

\* the range of the finite cells of the rows of a source that anchor names select
RangeOfSelectedRows(resourceID) ==
    RangeOf({v \in {ParseFloat(MapGet(csv[resourceID], AnchorKeys[i]).cells[years[j]]) :
                        i \in {a \in 1..Len(AnchorKeys) : MapHas(csv[resourceID], AnchorKeys[a])},
                        j \in 1..Len(years)} : IsFinite(v)})

\* C9: for every country X of the loaded dataset and every statistic source
\* without a row for X, X.stats has an entry for each of the 8 years, the field
\* of that statistic is non-finite in each, and the Limit of that statistic is
\* the range of the rows of other countries only.
C9_MissingRowGivesSentinel ==
    published # <<>> =>
        \A i \in 1..Len(getCountries(published[1])) : \A r \in CsvIds :
            NoRowFor(r, getCountries(published[1])[i]) =>
                /\ MapKeys(getCountries(published[1])[i].stats) = years
                /\ \A j \in 1..Len(years) :
                    ~IsFinite(FieldOf(r, getCountries(published[1])[i].stats[j].val))
                /\ getStatLimits(published[1])[r] = RangeOfSelectedRows(r)

\* a sequence without its repeats, each element at its first place
RECURSIVE DistinctInOrder(_)
DistinctInOrder(q) ==
    IF q = <<>> THEN <<>>
    ELSE LET front == DistinctInOrder(SubSeq(q, 1, Len(q) - 1))
         IN  IF q[Len(q)] \in Elems(front) THEN front ELSE Append(front, q[Len(q)])

\* the display name an anchor name resolves to
DisplayName(n) == MapGet(infoFromCode, CodeOf(n)).name

\* the last element of a sequence that satisfies a test
LastIndex(q, Test(_)) ==
    CHOOSE j \in 1..Len(q) : Test(q[j]) /\ \A k \in (j + 1)..Len(q) : ~Test(q[k])

\* the distinct anchor names in the order of their first rows
AnchorNames == DistinctInOrder(AnchorRowNames)

\* the last of the distinct anchor names that resolves to a display name
LastNameFor(d) ==
    LET Resolves(n) == DisplayName(n) = d
    IN  AnchorNames[LastIndex(AnchorNames, Resolves)]

\* the last row of the gdp file with a trimmed name
LastRowNamed(n) ==
    LET Named(row) == Trim(row.Country) = n
    IN  files["gdp"][LastIndex(files["gdp"], Named)]

\* C10 as claimed: getCountries() holds one country for each row of the gdp
\* file, in row order, and getCountry finds each by its display name.
C10_OneCountryPerAnchorRow ==
    published # <<>> =>
        /\ Len(getCountries(published[1])) = Len(files["gdp"])
        /\ \A i \in 1..Len(files["gdp"]) :
            /\ getCountries(published[1])[i].name = DisplayName(AnchorRowNames[i])
            /\ getCountry(published[1], DisplayName(AnchorRowNames[i]))
                    = <<getCountries(published[1])[i]>>

\* C10: getCountries() holds one country for each distinct display name that
\* the anchor names resolve to, in the order in which these display names
\* first occur in the gdp file; a country carries the code of, and the gdp
\* cells of the last row of, the last of the distinct anchor names that
\* resolves to its display name; no other country is in it; getCountry(n)
\* returns the country whose display name is n and undefined when there is none.
C10_OneCountryPerDisplayName ==
    published # <<>> =>
        LET cs == getCountries(published[1])
        IN  /\ [i \in 1..Len(cs) |-> cs[i].name]
                    = DistinctInOrder([i \in 1..Len(AnchorNames) |-> DisplayName(AnchorNames[i])])
            /\ \A i \in 1..Len(cs) :
                /\ cs[i].code = CodeOf(LastNameFor(cs[i].name))
                /\ \A j \in 1..Len(years) :
                    /\ cs[i].stats[j].key = years[j]
                    /\ cs[i].stats[j].val.gdp
                            = ParseInt(LastRowNamed(LastNameFor(cs[i].name)).cells[years[j]])
                /\ getCountry(published[1], cs[i].name) = <<cs[i]>>
            /\ \A n \in Elems(AnchorNames) \cup {"Myanmar"} :
                (\A i \in 1..Len(cs) : cs[i].name # n) => getCountry(published[1], n) = <<>>

\* a loaded dataset whose gdp file names one country in two rows under two
\* spellings: one country, found under its display name only
C10_Witness ==
    /\ published # <<>>
    /\ Len(files["gdp"]) = 2
    /\ AnchorRowNames = <<"South Korea", "Korea (Republic of)">>
    /\ Len(getCountries(published[1])) = 1
    /\ getCountry(published[1], "South Korea") # <<>>
    /\ getCountry(published[1], "Korea (Republic of)") = <<>>

\* the names under which a statistic source spells a country
SpellingsOf(resourceID, country) ==
    {k \in Elems(MapKeys(csv[resourceID])) : CodeOf(k) = country.code}

\* C11: when a statistic source other than gdp holds a row whose name the name
\* index resolves to a country of the loaded dataset, whatever the spelling of
\* that country in the gdp source, the country's field of that statistic holds
\* in every year the parsed cell of that row.
C11_OtherSpellingIsMerged ==
    published # <<>> =>
        \A i \in 1..Len(getCountries(published[1])) : \A r \in CsvIds \ {"gdp"} :
            \A k \in SpellingsOf(r, getCountries(published[1])[i]) :
                \A j \in 1..Len(years) :
                    FieldOf(r, getCountries(published[1])[i].stats[j].val)
                        = ParseFloat(MapGet(csv[r], k).cells[years[j]])

\* the number a statistic source gives for a country and a year: the cell of
\* the row the join selects, parsed as its category is parsed
ValueRead(resourceID, country, year) ==
    IF resourceID = "gdp"
    THEN ParseInt(safeFetchData(csv, LastNameFor(country.name), resourceID, year))
    ELSE ParseFloat(safeFetchData(csv, LastNameFor(country.name), resourceID, year))

\* a finite number lies within a Limit
Within(v, l) == ~NumLess(v, l.min) /\ ~NumLess(l.max, v)

\* C12: for every country and year, the field of each statistic holds the
\* value read from the source of that statistic (gdp from gdp, combined from
\* ineq_comb, education from ineq_edu, income from ineq_inc, life_expectancy
\* from ineq_life), and every finite value of a field lies within the Limit of
\* the same name.
C12_FieldsReadOwnSource ==
    published # <<>> =>
        \A i \in 1..Len(getCountries(published[1])) : \A r \in CsvIds :
            \A j \in 1..Len(years) :
                /\ FieldOf(r, getCountries(published[1])[i].stats[j].val)
                        = ValueRead(r, getCountries(published[1])[i], years[j])
                /\ IsFinite(FieldOf(r, getCountries(published[1])[i].stats[j].val)) =>
                        Within(FieldOf(r, getCountries(published[1])[i].stats[j].val),
                               getStatLimits(published[1])[r])

(***************************************************************************)
(* The load (SpecLoad)                                                     *)
(***************************************************************************)
AnyFetchFailed == \E r \in Resources : fetch[r] = "failed"

\* C2: once one of the six fetches has failed, loadData's promise is never
\* fulfilled and no DataSource reaches the then-callback, and the promise is
\* eventually rejected, in whatever order the six fetches settle.
C2_FailedFetchRejectsLoad ==
    /\ [](AnyFetchFailed => promise # "fulfilled" /\ published = <<>>)
    /\ (AnyFetchFailed ~> promise = "rejected")

\* one csv fetch failed after the reference list and the other files had
\* arrived and the index was built; the promise is rejected, the error logged
C2_Witness ==
    /\ fetch = [r \in Resources |-> IF r = "ineq_life" THEN "failed" ELSE "ok"]
    /\ pcDB = "done"
    /\ pc = "threw"
    /\ promise = "rejected"
    /\ errLogged
    /\ published = <<>>

\* C3: all six fetches are issued by the time loadData first suspends, the join
\* begins only when all six have completed, and a DataSource the consumer holds
\* has every anchor row joined and every Limit fully accumulated.
C3_ConsumerSeesCompleteJoin ==
    /\ pc # "idle" => \A r \in Resources : fetch[r] # "idle"
    /\ (pc = "join" \/ pc = "returned" \/ dataSource # <<>>) =>
            \A r \in Resources : fetch[r] = "ok"
    /\ published # <<>> =>
        /\ published[1] = dataSource
        /\ rowIdx = Len(AnchorKeys) + 1
        /\ \A i \in 1..Len(AnchorKeys) :
                getCountry(published[1], DisplayName(AnchorKeys[i])) # <<>>
        /\ \A r \in CsvIds : getStatLimits(published[1])[r] = RangeOfSelectedRows(r)

\* the consumer holds the DataSource of the two-row gdp file: both countries,
\* and the gdp Limit spans both rows
C3_Witness ==
    /\ published # <<>>
    /\ Len(getCountries(published[1])) = 2
    /\ getStatLimits(published[1])["gdp"] = [min |-> ParseFloat("800"), max |-> ParseFloat("1300")]
    /\ getStatLimits(published[1])["ineq_comb"] = [min |-> ParseFloat("12.5"), max |-> ParseFloat("13.0")]

(***************************************************************************)
(* The animation control (SpecAnim)                                        *)
(***************************************************************************)
\* C13: whatever the clicks, ticks and the course of the load, at most one
\* repeating timer is scheduled, one is scheduled exactly when anim is
\* defined (and it is the one anim holds), and a click that stopped the
\* animation ended without error, with no timer left and anim undefined; a
\* click whose animation() threw scheduled none either.
C13_OneTimerIffAnimDefined ==
    /\ Cardinality(intervals) <= 1
    /\ (intervals # {}) <=> (anim # <<>>)
    /\ anim # <<>> => intervals = {anim[1]}
    /\ lastClick = "stop" => intervals = {} /\ anim = <<>>
    /\ lastClick = "threw" => intervals = {} /\ anim = <<>>

\* the animation was started a second time, ticked round to 2012, and was
\* stopped: no timer, no handle; a third timer was never needed
C13_Witness ==
    /\ lastClick = "stop"
    /\ nextHandle = 3
    /\ displayedYear = "2012"
    /\ intervals = {}
    /\ anim = <<>>
    /\ buttonText = "Start Animation"

====
